---- MODULE Spec2Model ----
(***************************************************************************)
(* The download pipeline of yt-downloader.  The repository holds seven     *)
(* revisions of downloadVideo; ver selects the revision a run executes and *)
(* every action is translated from the code of each revision.              *)
(*                                                                         *)
(*   part002   src/unnamed/part_002  lines  20-43   (ytdl-core, no promise)*)
(*   part000   src/unnamed/part_000  lines  78-206  (ytdl-core)            *)
(*   index1    src/src/index.ts      lines  73-241  (play-dl)              *)
(*   index2    src/src/index.ts      lines 374-515  (play-dl)              *)
(*   part001   src/unnamed/part_001  lines  68-196  (play-dl)              *)
(*   part003b  src/unnamed/part_003  lines 354-511  (play-dl)              *)
(*   part003a  src/unnamed/part_003  lines  20-203  (play-dl, stall timer) *)
(*                                                                         *)
(* The streams follow Node's stream contract: fs.createWriteStream opens   *)
(* the file asynchronously (the open runs on a worker thread, its callback *)
(* on the event loop), pipe() forwards every chunk to the sink and ends    *)
(* the sink on the source's 'end', and a sink error unpipes the source.    *)
(***************************************************************************)
EXTENDS Integers, Sequences, FiniteSets, TLC

VARIABLES
  ver, kind, formats, quality,          \* the request and the selected itag
  pc, mainPc, exitCode,                 \* downloadVideo, main, the process
  src, delivered, downloaded, piped,    \* source stream and byte counter
  sink, sysOpened, sinkBuf, sinkEnding, \* file write stream
  file, fileBytes, linked, created,     \* the output path on disk
  interval, lastBytes, timeoutArmed,    \* progress timer, stall timer
  outcome,                              \* what the caller of downloadVideo gets
  successRan, failRan, failStage,       \* which paths have run
  srcErrLive, sinkErrLive,              \* an error found the request streaming and pending
  call,                                 \* a helper applied on its own: input and result
  errLines,                             \* error lines printed so far
  shot,                                 \* progress snapshots: spacing and count
  performed                             \* how often each stage has been performed

reqVars   == <<ver, kind, formats, quality, call>>
procVars  == <<pc, mainPc, exitCode>>
srcVars   == <<src, delivered, downloaded, piped>>
sinkVars  == <<sink, sysOpened, sinkBuf, sinkEnding>>
fsVars    == <<file, fileBytes, linked, created>>
timerVars == <<interval, lastBytes, timeoutArmed>>
outVars   == <<outcome, successRan, failRan, failStage, srcErrLive, sinkErrLive>>
obsVars   == <<errLines, shot, performed>>
vars == <<reqVars, procVars, srcVars, sinkVars, fsVars, timerVars, outVars, obsVars>>

----------------------------------------------------------------------------
(* Bounds *)

\* total number of bytes a source stream delivers in one run
MaxBytes == 2

\* how often a stage may be performed before the model stops counting
MaxTries == 2

\* seconds of silence the model tells apart
MaxQuiet == 2

\* snapshots the model tells apart
MaxLate == 2

----------------------------------------------------------------------------
(* The revisions and what distinguishes them *)

Versions == {"part002", "part000", "index1", "index2", "part001", "part003b", "part003a"}

Kinds == {"audio", "video"}

\* itags the remote service may offer in a run
Itags == {140, 251, 18, 22, 136}

\* VideoFormatInfo.hasAudio / hasVideo of an offered itag
HasAudio(i) == i \in {140, 251, 139, 18, 22}

HasVideo(i) == i \in {18, 22, 136}

\* revisions built on ytdl-core: the library selects the format and opens
\* the stream itself, after ytdl() has returned
UsesYtdl(v) == v \in {"part002", "part000"}

\* revisions that arm a setInterval progress timer
HasInterval(v) == v \in {"index1", "index2", "part001", "part003b", "part003a"}

\* revisions that create the download directory
MakesDir(v) == ~UsesYtdl(v)

\* ytdl-core's filter: 'audioonly', or format.hasVideo && format.hasAudio
YtdlAccepts(k, fs) ==
  \E f \in fs : IF k = "audio" THEN HasAudio(f) /\ ~HasVideo(f)
                               ELSE HasVideo(f) /\ HasAudio(f)

\* Array.prototype.find over a priority list; 0 stands for undefined
RECURSIVE FirstOffered(_, _)
FirstOffered(list, avail) ==
  IF list = <<>> THEN 0
  ELSE IF Head(list) \in avail THEN Head(list)
  ELSE FirstOffered(Tail(list), avail)

\* x || d
OrElse(x, d) == IF x = 0 THEN d ELSE x

audioQualities == <<251, 140, 250, 249>>

videoQualities == <<303, 299, 399, 136, 247, 298, 135, 244, 134, 243, 18>>

preferredQualities == <<137, 136, 135, 134>>

\* the itag each play-dl revision passes to stream()
Quality(v, k, fs) ==
  CASE v \in {"index1", "index2"} ->
         IF k = "audio" THEN 140
         ELSE OrElse(FirstOffered(preferredQualities, fs), 136)
    [] v = "part001" ->
         IF k = "audio" THEN 251 ELSE IF 22 \in fs THEN 22 ELSE 18
    [] v = "part003b" ->
         IF k = "audio" THEN OrElse(FirstOffered(audioQualities, fs), 140)
         ELSE OrElse(FirstOffered(videoQualities, fs), 18)
    [] v = "part003a" -> IF k = "audio" THEN 140 ELSE 18
    [] OTHER -> 0

\* revisions that look the chosen itag up in the offer and throw when absent
ChecksOffered(v) == v \in {"part001", "part003b", "part003a"}

\* a catch block that starts the metadata fetch again
RetriedFetch(stage) == IF stage = "resolve" THEN "info" ELSE "done"

\* where downloadVideo stands after its catch block has thrown: it is over,
\* whatever the stage that failed
Rethrown(stage) == "done"

\* the catch block of downloadVideo: a typed error is rethrown, anything
\* else is wrapped in a DownloadError
CatchWrap(cat) == IF cat = "untyped" THEN "DOWNLOAD_ERROR" ELSE cat

\* category of the error video_info / getVideoInfo raises inside downloadVideo
InfoErrorCat(v) == IF v = "part000" THEN "VIDEO_INFO_ERROR" ELSE "untyped"

\* category thrown when the chosen itag is not offered
NoFormatCat(v) == IF v = "part003a" THEN "untyped" ELSE "DOWNLOAD_ERROR"

----------------------------------------------------------------------------
(* Event handlers of each revision *)

\* a handler is attached to the source stream's 'error'
SrcErrHandled(v) == v # "part002"

\* the source 'error' handler throws out of the listener instead of rejecting
SrcErrThrows(v) == v = "index1"

\* the source 'error' handler calls writeStream.end()
SrcErrEndsSink(v) == v = "part003a"

\* a handler is attached to the write stream's 'error'
SinkErrHandled(v) == v # "part002"

\* the write stream's 'error' handler removes the output file
SinkErrUnlinks(v) == v \in {"part000", "part001", "part003b", "part003a"}

\* a handler is attached to the write stream's 'finish'
FinishHandled(v) == v # "part002"

\* the source 'end' handler clears the progress timer
EndClearsInterval(v) == v \in {"part001", "part003b"}

\* the source 'end' handler calls writeStream.end() itself
EndEndsSink(v) == v = "part003a"

\* a counter that counts chunks instead of bytes
CountedPerChunk(n) == 1

\* bytes the 'data' / 'progress' handler adds to the counter for a chunk
Counted(n) == n

\* a clearInterval that leaves the timer armed
ClearIntervalLeaks(armed) == armed

\* clearInterval(updateInterval): whether the timer is armed afterwards
ClearInterval(armed) == FALSE

\* error lines (console.error, logger.error) the source 'error' handler prints
SrcHandlerLines(v) == IF v \in {"index1", "index2", "part003a"} THEN 1 ELSE 0

\* error lines the write stream's 'error' listeners print: part003a has two
\* listeners, its own and the one added to the result of pipe()
SinkHandlerLines(v) ==
  CASE v = "index1" -> 1
    [] v = "part003a" -> 2
    [] OTHER -> 0

\* error lines the catch block of downloadVideo prints
CatchLines(v) == IF v \in {"part002", "index1", "part003a"} THEN 1 ELSE 0

\* the promise is returned with `return await`, inside the try block, so a
\* rejection passes through the catch block of downloadVideo
CatchSeesRejection(v) == v \in {"index1", "index2"}

\* error lines the catch block of main prints
MainLines(v) == IF v = "part003a" THEN 2 ELSE 1

\* error lines printed for an uncaught exception, by the process handler or by
\* the runtime
UncaughtLines(v) == IF v = "part003a" THEN 2 ELSE 1

\* a throttle that lets every snapshot through
ThrottledNever(seconds) == TRUE

\* if (now - lastUpdate > 1000), in whole seconds
Throttled(seconds) == seconds > 1

\* the stall timer's test: downloadedSize === 0
StallDetected(bytes) == bytes = 0

----------------------------------------------------------------------------
(* Helpers *)

Pending == [state |-> "pending", cat |-> "none", cause |-> "none", size |-> 0]

\* reject(new XError(...)): no effect on a settled promise
Rejected(o, cat, cause) ==
  IF o.state = "pending"
  THEN [state |-> "error", cat |-> cat, cause |-> cause, size |-> 0]
  ELSE o

\* resolve(result): no effect on a settled promise
Resolved(o, size) ==
  IF o.state = "pending"
  THEN [state |-> "result", cat |-> "none", cause |-> "none", size |-> size]
  ELSE o

FirstStage(s) == IF failStage = "none" THEN s ELSE failStage

\* if (fs.existsSync(filePath)) fs.unlinkSync(filePath)
UnlinkIf(c) ==
  IF c /\ file # "absent"
  THEN /\ file' = "absent"
       /\ fileBytes' = 0
       /\ linked' = FALSE
  ELSE UNCHANGED <<file, fileBytes, linked>>

Running == exitCode = "running"

\* the promise has settled and main's continuation is the next microtask
MicrotaskPending == outcome.state # "pending" /\ mainPc = "awaiting"

\* the event loop may dispatch an I/O or timer callback
Dispatch == Running /\ ~MicrotaskPending

SinkWritable == sink \in {"opening", "open"}

\* something keeps the event loop alive
Active ==
  \/ interval
  \/ timeoutArmed
  \/ pc \notin {"await", "done"}
  \/ src \in {"preparing", "flowing", "stalled"}
  \/ sink = "opening"
  \/ sink = "open" /\ (sinkBuf > 0 \/ sinkEnding)

\* n + 1, up to the largest count the model tells apart
UpTo(n, max) == IF n < max THEN n + 1 ELSE n

\* a second passes
Pass(s) == [s EXCEPT !.since = UpTo(@, MaxQuiet)]

\* a progress snapshot is shown: burst when less than a second after the one
\* before, counted in `after` when the sink has already reported
Emit(s) ==
  [since |-> 0,
   n     |-> UpTo(s.n, MaxLate),
   burst |-> s.burst \/ (s.n > 0 /\ s.since < 1),
   after |-> IF sink \in {"finished", "errored"} THEN UpTo(s.after, MaxLate)
             ELSE s.after]

\* the stages in ops have been performed once more
Did(ops) == [o \in DOMAIN performed |-> IF o \in ops THEN performed[o] + 1
                                        ELSE performed[o]]

\* no helper has been applied
NoCall == [fn |-> "none", arg |-> <<>>, res |-> <<>>]

----------------------------------------------------------------------------
(* Initial states *)

Init ==
  /\ ver \in Versions
  /\ kind \in Kinds
  /\ formats \in SUBSET Itags
  /\ quality = 0
  /\ pc = "start"
  /\ mainPc = "awaiting"
  /\ exitCode = "running"
  /\ src = "none"
  /\ delivered = 0
  /\ downloaded = 0
  /\ piped = FALSE
  /\ sink = "none"
  /\ sysOpened = FALSE
  /\ sinkBuf = 0
  /\ sinkEnding = FALSE
  /\ file \in {"absent", "old"}
  /\ fileBytes = 0
  /\ linked = FALSE
  /\ created = FALSE
  /\ interval = FALSE
  /\ lastBytes = 0
  /\ timeoutArmed = FALSE
  /\ outcome = Pending
  /\ successRan = FALSE
  /\ failRan = FALSE
  /\ failStage = "none"
  /\ srcErrLive = FALSE
  /\ sinkErrLive = FALSE
  /\ call = NoCall
  /\ errLines = 0
  /\ shot = [since |-> 0, n |-> 0, burst |-> FALSE, after |-> 0]
  /\ performed = [fetch |-> 0, select |-> 0, open |-> 0, create |-> 0]

----------------------------------------------------------------------------
(* downloadVideo up to the point where it waits for the streams *)

\* an error raised inside the try block reaches the catch block: the call
\* rejects with the (wrapped) error; part002 prints it and returns normally
FailCall(cat, stage) ==
  /\ pc' = Rethrown(stage)
  /\ outcome' = IF ver = "part002"
                THEN [state |-> "void", cat |-> "none", cause |-> "none", size |-> 0]
                ELSE [state |-> "error", cat |-> CatchWrap(cat), cause |-> stage, size |-> 0]
  /\ failStage' = FirstStage(stage)
  /\ errLines' = errLines + CatchLines(ver)
  /\ UNCHANGED <<successRan, failRan, srcErrLive, sinkErrLive>>

\* createWriteStream, timers, handlers, pipe, and the promise is returned
SetUp ==
  /\ src' = IF UsesYtdl(ver) THEN "preparing" ELSE "flowing"
  /\ piped' = TRUE
  /\ UNCHANGED <<delivered, downloaded>>
  /\ sink' = "opening"
  /\ UNCHANGED <<sysOpened, sinkBuf, sinkEnding>>
  /\ interval' = HasInterval(ver)
  /\ timeoutArmed' = (ver = "part003a")
  /\ UNCHANGED lastBytes
  /\ IF ver = "part002"
     THEN /\ pc' = "done"
          /\ successRan' = TRUE
          /\ outcome' = [state |-> "void", cat |-> "none", cause |-> "none", size |-> 0]
     ELSE /\ pc' = "await"
          /\ UNCHANGED <<successRan, outcome>>
  /\ UNCHANGED <<failRan, failStage, srcErrLive, sinkErrLive>>

\* ensureDownloadDirectory
Prepare(ok) ==
  /\ Running
  /\ pc = "start"
  /\ ok \/ MakesDir(ver)
  /\ IF ok
     THEN /\ pc' = IF ver = "part003a" THEN "validate" ELSE "info"
          /\ UNCHANGED <<outVars, errLines>>
     ELSE FailCall("untyped", "mkdir")
  /\ UNCHANGED <<reqVars, mainPc, exitCode, srcVars, sinkVars, fsVars, timerVars>>
  /\ UNCHANGED <<shot, performed>>

\* await validate(options.url)
Validate(ok) ==
  /\ Running
  /\ pc = "validate"
  /\ IF ok
     THEN /\ pc' = "info"
          /\ UNCHANGED <<outVars, errLines>>
     ELSE FailCall("VALIDATION_ERROR", "validate")
  /\ UNCHANGED <<reqVars, mainPc, exitCode, srcVars, sinkVars, fsVars, timerVars>>
  /\ UNCHANGED <<shot, performed>>

\* await video_info / getVideoInfo, then the synchronous code up to the
\* next await: quality selection, file name, part003a's removal of an
\* existing file, the lookup of the chosen itag
FetchInfo(ok) ==
  /\ Running
  /\ pc = "info"
  /\ performed.fetch < MaxTries
  /\ IF ~ok
     THEN /\ FailCall(InfoErrorCat(ver), "resolve")
          /\ performed' = Did({"fetch"})
          /\ UNCHANGED <<quality, srcVars, sinkVars, fsVars, timerVars>>
     ELSE IF UsesYtdl(ver)
     THEN /\ SetUp
          /\ performed' = Did({"fetch", "create"})
          /\ UNCHANGED <<quality, fsVars, errLines>>
     ELSE LET q == Quality(ver, kind, formats) IN
          /\ quality' = q
          /\ performed' = Did({"fetch", "select"})
          /\ UnlinkIf(ver = "part003a")
          /\ UNCHANGED created
          /\ IF ChecksOffered(ver) /\ q \notin formats
             THEN FailCall(NoFormatCat(ver), "select")
             ELSE /\ pc' = "open"
                  /\ UNCHANGED <<outVars, errLines>>
          /\ UNCHANGED <<srcVars, sinkVars, timerVars>>
  /\ UNCHANGED <<ver, kind, formats, call, mainPc, exitCode, shot>>

\* await stream(options.url, { quality })
OpenStream(ok) ==
  /\ Running
  /\ pc = "open"
  /\ performed.open < MaxTries
  /\ IF ok
     THEN /\ SetUp
          /\ performed' = Did({"open", "create"})
          /\ UNCHANGED errLines
     ELSE /\ FailCall("untyped", "open")
          /\ performed' = Did({"open"})
          /\ UNCHANGED <<srcVars, sinkVars, timerVars>>
  /\ UNCHANGED <<reqVars, mainPc, exitCode, fsVars, shot>>

----------------------------------------------------------------------------
(* The file write stream *)

\* the open() issued by fs.createWriteStream completes on the worker thread:
\* flags 'w' create the file or truncate the one that is there
SinkOpenSys ==
  /\ Running
  /\ sink = "opening"
  /\ ~sysOpened
  /\ sysOpened' = TRUE
  /\ file' = "new"
  /\ fileBytes' = 0
  /\ linked' = TRUE
  /\ created' = TRUE
  /\ UNCHANGED <<reqVars, procVars, srcVars, sink, sinkBuf, sinkEnding, timerVars, outVars>>
  /\ UNCHANGED obsVars

\* the open callback runs: buffered writes may now be issued
SinkOpenCb ==
  /\ Dispatch
  /\ sink = "opening"
  /\ sysOpened
  /\ sink' = "open"
  /\ UNCHANGED <<reqVars, procVars, srcVars, sysOpened, sinkBuf, sinkEnding, fsVars,
                 timerVars, outVars>>
  /\ UNCHANGED obsVars

\* the buffered chunks are written through the descriptor; they reach the
\* output path only while the descriptor's file is still linked there
SinkFlush ==
  /\ Dispatch
  /\ sink = "open"
  /\ sinkBuf > 0
  /\ sinkBuf' = 0
  /\ fileBytes' = IF linked THEN fileBytes + sinkBuf ELSE fileBytes
  /\ UNCHANGED <<reqVars, procVars, srcVars, sink, sysOpened, sinkEnding, file, linked,
                 created, timerVars, outVars>>
  /\ UNCHANGED obsVars

\* writeStream 'finish': end() was called and everything written was flushed
SinkFinish ==
  /\ Dispatch
  /\ sink = "open"
  /\ sinkEnding
  /\ sinkBuf = 0
  /\ sink' = "finished"
  /\ IF FinishHandled(ver)
     THEN /\ interval' = ClearInterval(interval)
          /\ successRan' = TRUE
          /\ outcome' = Resolved(outcome, downloaded)
     ELSE UNCHANGED <<interval, successRan, outcome>>
  /\ UNCHANGED <<reqVars, procVars, srcVars, sysOpened, sinkBuf, sinkEnding, fsVars,
                 lastBytes, timeoutArmed, failRan, failStage, srcErrLive, sinkErrLive>>
  /\ UNCHANGED obsVars

\* writeStream 'error': the open failed, or a write failed.  pipe() unpipes
\* the source; without a listener the error is an uncaught exception
SinkError ==
  /\ Dispatch
  /\ \/ sink = "opening" /\ ~sysOpened
     \/ sink = "open" /\ sinkBuf > 0
  /\ sink' = "errored"
  /\ sinkBuf' = 0
  /\ piped' = FALSE
  /\ failStage' = FirstStage("sink")
  /\ sinkErrLive' = (sinkErrLive \/ outcome.state = "pending")
  /\ IF SinkErrHandled(ver)
     THEN /\ interval' = ClearInterval(interval)
          /\ UnlinkIf(SinkErrUnlinks(ver))
          /\ failRan' = TRUE
          /\ outcome' = Rejected(outcome, "FILE_SYSTEM_ERROR", "sink")
          /\ errLines' = errLines + SinkHandlerLines(ver)
          /\ UNCHANGED exitCode
     ELSE /\ exitCode' = "nonzero"
          /\ errLines' = errLines + UncaughtLines(ver)
          /\ UNCHANGED <<interval, file, fileBytes, linked, failRan, outcome>>
  /\ UNCHANGED <<reqVars, pc, mainPc, src, delivered, downloaded, sysOpened, sinkEnding,
                 created, lastBytes, timeoutArmed, successRan, srcErrLive>>
  /\ UNCHANGED <<shot, performed>>

----------------------------------------------------------------------------
(* The source stream *)

\* ytdl-core has fetched the info and chosen a format: data starts to flow
SrcReady ==
  /\ Dispatch
  /\ src = "preparing"
  /\ YtdlAccepts(kind, formats)
  /\ src' = "flowing"
  /\ UNCHANGED <<reqVars, procVars, delivered, downloaded, piped, sinkVars, fsVars,
                 timerVars, outVars>>
  /\ performed' = Did({"select", "open"})
  /\ UNCHANGED <<errLines, shot>>

\* 'data': the counter's listener and pipe()'s listener both see the chunk
SrcData(n) ==
  /\ Dispatch
  /\ src = "flowing"
  /\ delivered + n <= MaxBytes
  /\ delivered' = delivered + n
  /\ downloaded' = IF ver = "part002" THEN downloaded ELSE downloaded + Counted(n)
  /\ sinkBuf' = IF piped /\ SinkWritable /\ ~sinkEnding THEN sinkBuf + n ELSE sinkBuf
  /\ shot' = IF ver = "part000" /\ Throttled(shot.since) THEN Emit(shot) ELSE shot
  /\ UNCHANGED <<reqVars, procVars, src, piped, sink, sysOpened, sinkEnding, fsVars,
                 timerVars, outVars>>
  /\ UNCHANGED <<errLines, performed>>

\* 'end': pipe() ends the sink
SrcEnd ==
  /\ Dispatch
  /\ src = "flowing"
  /\ src' = "ended"
  /\ sinkEnding' = (sinkEnding \/ (SinkWritable /\ (piped \/ EndEndsSink(ver))))
  /\ interval' = IF EndClearsInterval(ver) THEN ClearInterval(interval) ELSE interval
  /\ UNCHANGED <<reqVars, procVars, delivered, downloaded, piped, sink, sysOpened, sinkBuf,
                 fsVars, lastBytes, timeoutArmed, outVars>>
  /\ UNCHANGED obsVars

\* the remote end stops sending and never closes the connection
SrcStall ==
  /\ Dispatch
  /\ src = "flowing"
  /\ src' = "stalled"
  /\ UNCHANGED <<reqVars, procVars, delivered, downloaded, piped, sinkVars, fsVars,
                 timerVars, outVars>>
  /\ UNCHANGED obsVars

\* the stage a source error belongs to: ytdl-core reports a failed format
\* selection or a failed open as an 'error' of the stream it returned
SrcErrStage ==
  IF src = "preparing"
  THEN IF YtdlAccepts(kind, formats) THEN "open" ELSE "select"
  ELSE "src"

\* 'error' of the source stream
SrcError ==
  /\ Dispatch
  /\ src \in {"preparing", "flowing"}
  /\ src' = "errored"
  /\ failStage' = FirstStage(SrcErrStage)
  /\ srcErrLive' = (srcErrLive \/ (src = "flowing" /\ outcome.state = "pending"))
  /\ IF SrcErrHandled(ver)
     THEN /\ interval' = ClearInterval(interval)
          /\ UnlinkIf(TRUE)
          /\ failRan' = TRUE
          /\ sinkEnding' = (sinkEnding \/ (SrcErrEndsSink(ver) /\ SinkWritable))
          /\ IF SrcErrThrows(ver)
             THEN /\ exitCode' = "nonzero"
                  /\ errLines' = errLines + SrcHandlerLines(ver) + UncaughtLines(ver)
                  /\ UNCHANGED outcome
             ELSE /\ outcome' = Rejected(outcome, "DOWNLOAD_ERROR", SrcErrStage)
                  /\ errLines' = errLines + SrcHandlerLines(ver)
                  /\ UNCHANGED exitCode
     ELSE /\ exitCode' = "nonzero"
          /\ errLines' = errLines + UncaughtLines(ver)
          /\ UNCHANGED <<interval, file, fileBytes, linked, failRan, sinkEnding, outcome>>
  /\ performed' = CASE src = "preparing" /\ SrcErrStage = "select" -> Did({"select"})
                     [] src = "preparing" /\ SrcErrStage = "open" -> Did({"select", "open"})
                     [] OTHER -> performed
  /\ UNCHANGED <<reqVars, pc, mainPc, delivered, downloaded, piped, sink, sysOpened,
                 sinkBuf, created, lastBytes, timeoutArmed, successRan, sinkErrLive, shot>>

----------------------------------------------------------------------------
(* Timers *)

\* the setInterval callback: the tick takes the counter as its new baseline
Tick ==
  /\ Dispatch
  /\ interval
  /\ lastBytes' = downloaded
  /\ shot' = Emit(Pass(shot))
  /\ UNCHANGED <<reqVars, procVars, srcVars, sinkVars, fsVars, interval, timeoutArmed,
                 outVars>>
  /\ UNCHANGED <<errLines, performed>>

\* a second passes while ytdl-core's 'progress' events are awaited
Second ==
  /\ Running
  /\ ver = "part000"
  /\ src = "flowing"
  /\ shot.since < MaxQuiet
  /\ shot' = Pass(shot)
  /\ UNCHANGED <<reqVars, procVars, srcVars, sinkVars, fsVars, timerVars, outVars>>
  /\ UNCHANGED <<errLines, performed>>

\* the 30 second setTimeout of part003a
Timeout ==
  /\ Dispatch
  /\ timeoutArmed
  /\ timeoutArmed' = FALSE
  /\ IF StallDetected(downloaded)
     THEN /\ interval' = ClearInterval(interval)
          /\ UnlinkIf(TRUE)
          /\ failRan' = TRUE
          /\ failStage' = FirstStage("timeout")
          /\ outcome' = Rejected(outcome, "DOWNLOAD_ERROR", "timeout")
     ELSE UNCHANGED <<interval, file, fileBytes, linked, failRan, failStage, outcome>>
  /\ UNCHANGED <<reqVars, procVars, srcVars, sinkVars, created, lastBytes, successRan,
                 srcErrLive, sinkErrLive>>
  /\ UNCHANGED obsVars

----------------------------------------------------------------------------
(* main and the process *)

\* main resumes after `await downloadVideo(...)`: it returns, or its catch
\* block logs the error and calls process.exit(1)
MainResume ==
  /\ Running
  /\ mainPc = "awaiting"
  /\ outcome.state # "pending"
  /\ IF outcome.state = "error"
     THEN /\ mainPc' = "exited"
          /\ exitCode' = "nonzero"
          /\ errLines' = errLines + MainLines(ver)
               + IF CatchSeesRejection(ver) /\ outcome.cause \in {"src", "sink", "timeout"}
                 THEN CatchLines(ver) ELSE 0
     ELSE /\ mainPc' = "returned"
          /\ UNCHANGED <<exitCode, errLines>>
  /\ UNCHANGED <<reqVars, pc, srcVars, sinkVars, fsVars, timerVars, outVars>>
  /\ UNCHANGED <<shot, performed>>

\* main has returned and nothing keeps the event loop alive
ProcExit ==
  /\ Running
  /\ mainPc = "returned"
  /\ ~Active
  /\ exitCode' = "zero"
  /\ UNCHANGED <<reqVars, pc, mainPc, srcVars, sinkVars, fsVars, timerVars, outVars>>
  /\ UNCHANGED obsVars

----------------------------------------------------------------------------

Next ==
  \/ \E ok \in BOOLEAN : Prepare(ok)
  \/ \E ok \in BOOLEAN : Validate(ok)
  \/ \E ok \in BOOLEAN : FetchInfo(ok)
  \/ \E ok \in BOOLEAN : OpenStream(ok)
  \/ SinkOpenSys
  \/ SinkOpenCb
  \/ SinkFlush
  \/ SinkFinish
  \/ SinkError
  \/ SrcReady
  \/ \E n \in 1..MaxBytes : SrcData(n)
  \/ SrcEnd
  \/ SrcStall
  \/ SrcError
  \/ Tick
  \/ Second
  \/ Timeout
  \/ MainResume
  \/ ProcExit

Spec == Init /\ [][Next]_vars

\* the event loop runs every callback that is due, and a source that is
\* flowing does something: it delivers, ends, fails or stalls
FairSpec == Spec /\ WF_vars(Next)

----------------------------------------------------------------------------

TypeOK ==
  /\ ver \in Versions
  /\ kind \in Kinds
  /\ formats \subseteq Itags
  /\ pc \in {"start", "validate", "info", "open", "await", "done"}
  /\ mainPc \in {"awaiting", "returned", "exited"}
  /\ exitCode \in {"running", "zero", "nonzero"}
  /\ src \in {"none", "preparing", "flowing", "stalled", "ended", "errored"}
  /\ sink \in {"none", "opening", "open", "finished", "errored"}
  /\ delivered \in 0..MaxBytes
  /\ downloaded \in 0..MaxBytes
  /\ sinkBuf \in 0..MaxBytes
  /\ fileBytes \in 0..MaxBytes
  /\ file \in {"absent", "old", "new"}
  /\ outcome.state \in {"pending", "result", "error", "void"}
  /\ call.fn \in {"none", "select", "filename", "validateYouTubeUrl", "getVideoInfo",
                  "tick", "progress", "logger", "catch"}
  /\ errLines \in Nat
  /\ shot.since \in 0..MaxQuiet
  /\ shot.n \in 0..MaxLate
  /\ shot.after \in 0..MaxLate
  /\ \A o \in DOMAIN performed : performed[o] \in 0..MaxTries

----------------------------------------------------------------------------
(* The helpers of the request, applied on their own *)

\* longest offer drawn
MaxOffer == 2

\* itags of the formats an offer may list: 139 is audio-only and on no
\* priority list
OfferItags == {251, 140, 139, 18, 136}

\* one entry of video_info().format: itag and contentLength (0: absent)
StreamFormats == [itag : OfferItags, contentLength : {0, 1}]

\* video_info().format: an array, in the order the remote lists it
Offers == UNION {[1..n -> StreamFormats] : n \in 0..MaxOffer}

\* streamFormats.map((f) => f.itag), read only through includes()
AvailableFirst(offer) == IF offer = <<>> THEN {} ELSE {offer[1].itag}

AvailableQualities(offer) == {offer[i].itag : i \in 1..Len(offer)}

\* the quality block followed by the selectedFormat lookup: the itag chosen
\* and whether the lookup throws
SelectFormat(v, k, offer) ==
  LET avail == AvailableQualities(offer)
      q     == Quality(v, k, avail)
  IN  [quality |-> q, thrown |-> ChecksOffered(v) /\ q \notin avail]

\* two offers of the same formats: each lists the itags of the other, in any
\* order and with any content lengths
SameFormats(a, b) ==
  \A i \in OfferItags :
    (\E j \in 1..Len(a) : a[j].itag = i) <=> (\E j \in 1..Len(b) : b[j].itag = i)

\* the selection applied to two offers of the same formats
CallSelect(a, b) ==
  /\ ~UsesYtdl(ver)
  /\ SameFormats(a, b)
  /\ call' = [fn  |-> "select",
              arg |-> [a |-> a, b |-> b],
              res |-> [a |-> SelectFormat(ver, kind, a),
                       b |-> SelectFormat(ver, kind, b)]]
  /\ UNCHANGED <<ver, kind, formats, quality>>
  /\ UNCHANGED <<procVars, srcVars, sinkVars, fsVars, timerVars, outVars, obsVars>>

\* longest title drawn character by character
MaxTitleLen == 2

\* how far past the cut the long titles drawn reach
MaxOver == 2

\* .substring(0, 200)
TitleLimit == 200

\* the character class of /[/\\?%*:|"<>]/g
Hostile == {"/", "\\", "?", "%", "*", ":", "|", "\"", "<", ">"}

TitleChars == Hostile \cup {"A", "-"}

\* a title of n characters: c up to the cut, "Z" after it
LongTitle(n, c) == [i \in 1..n |-> IF i <= TitleLimit THEN c ELSE "Z"]

\* info.video_details.title
Titles ==
  UNION {[1..n -> TitleChars] : n \in 0..MaxTitleLen}
    \cup {<<"A", "/", "B", "?", "C", "*", "D">>}
    \cup {LongTitle(n, c) : n \in (TitleLimit - 1)..(TitleLimit + MaxOver),
                            c \in {"A", "/"}}

\* String.prototype.replace with a global pattern: every match is replaced
ReplaceFirst(t) ==
  [i \in 1..Len(t) |->
     IF t[i] \in Hostile /\ \A j \in 1..(i - 1) : t[j] \notin Hostile
     THEN "-" ELSE t[i]]

Replace(t) == [i \in 1..Len(t) |-> IF t[i] \in Hostile THEN "-" ELSE t[i]]

\* String.prototype.substring(0, n)
Substring(t, n) == SubSeq(t, 1, IF Len(t) < n THEN Len(t) ELSE n)

\* revisions that sanitize the title
Sanitizes(v) == v # "part002"

\* revisions that replace an empty title
DefaultsTitle(v) == v \notin {"part002", "part000"}

\* const sanitizedTitle = ...
SanitizedTitle(v, t) ==
  IF ~Sanitizes(v) THEN t
  ELSE IF DefaultsTitle(v) /\ t = <<>> THEN <<"v", "i", "d", "e", "o">>
  ELSE Substring(Replace(t), TitleLimit)

\* options.format === "audio" ? "mp3" : "mp4"
Extension(k) == IF k = "audio" THEN <<"m", "p", "3">> ELSE <<"m", "p", "4">>

\* const filename = `${sanitizedTitle}.${...}`
FileName(v, k, t) == SanitizedTitle(v, t) \o <<".">> \o Extension(k)

\* the directory a file name is resolved against, as path segments below the
\* working directory: DOWNLOAD_DIR, or the working directory itself where
\* createWriteStream is given the bare file name
DownloadDir(v) == IF UsesYtdl(v) THEN <<>> ELSE <<"videos">>

\* the segments of a path: the pieces between separators, in order
Segments(name) ==
  LET starts == {i \in 1..Len(name) :
                   name[i] # "/" /\ (i = 1 \/ name[i - 1] = "/")}
      nth(n) == CHOOSE i \in starts : Cardinality({j \in starts : j < i}) = n - 1
      end(i) == CHOOSE j \in i..Len(name) :
                  /\ j = Len(name) \/ name[j + 1] = "/"
                  /\ \A k \in i..j : name[k] # "/"
  IN  [n \in 1..Cardinality(starts) |-> SubSeq(name, nth(n), end(nth(n)))]

\* the file the write stream opens: whether the path starts at the root of
\* the file system, and its segments (below the working directory when it
\* does not).  path.join keeps the name below DOWNLOAD_DIR; a bare name that
\* starts with a separator is an absolute path
FilePath(v, k, t) ==
  LET name == FileName(v, k, t) IN
  [absolute |-> UsesYtdl(v) /\ name[1] = "/",
   segments |-> IF UsesYtdl(v) /\ name[1] = "/"
                THEN Segments(name)
                ELSE DownloadDir(v) \o Segments(name)]

CallFileName(t) ==
  /\ call' = [fn  |-> "filename",
              arg |-> [title |-> t],
              res |-> [base |-> SanitizedTitle(ver, t),
                       name |-> FileName(ver, kind, t),
                       path |-> FilePath(ver, kind, t)]]
  /\ UNCHANGED <<ver, kind, formats, quality>>
  /\ UNCHANGED <<procVars, srcVars, sinkVars, fsVars, timerVars, outVars, obsVars>>

\* what the user typed: nothing, or something
Urls == {"", "u"}

\* what validate(url) does: names a video, names something else, or throws
Verdicts == {"yt_video", "other", "throws"}

\* validateYouTubeUrl: the value returned, the error thrown to the caller,
\* and the error its own catch block took
ValidateYouTubeUrl(v, url, verdict) ==
  IF v = "part002"
  THEN [returned |-> url # "" /\ verdict = "yt_video",
        thrown |-> "none", caught |-> "none"]
  ELSE IF url = ""
  THEN [returned |-> FALSE, thrown |-> "none", caught |-> "VALIDATION_ERROR"]
  ELSE IF verdict = "throws"
  THEN [returned |-> FALSE, thrown |-> "none", caught |-> "untyped"]
  ELSE [returned |-> verdict = "yt_video",
        thrown |-> "none", caught |-> "none"]

CallValidate(url, verdict) ==
  /\ UsesYtdl(ver) => verdict # "throws"
  /\ call' = [fn  |-> "validateYouTubeUrl",
              arg |-> [url |-> url, verdict |-> verdict],
              res |-> ValidateYouTubeUrl(ver, url, verdict)]
  /\ UNCHANGED <<ver, kind, formats, quality>>
  /\ UNCHANGED <<procVars, srcVars, sinkVars, fsVars, timerVars, outVars, obsVars>>

\* what the remote fetch threw: an Error whose message names the age
\* restriction, one whose message names the extractor, another Error, or a
\* value that is no Error
Causes == {"age-restricted", "Could not extract", "other", "nonError"}

\* the error getVideoInfo throws for a cause
GetVideoInfoThrows(v, cause) ==
  IF v = "part002"
  THEN [name |-> "Error", code |-> "none",
        message |-> <<"Failed to get video information">>]
  ELSE [name |-> "VideoInfoError", code |-> "VIDEO_INFO_ERROR",
        message |->
          CASE cause = "nonError" -> <<"An unknown error occurred">>
            [] cause = "age-restricted" -> <<"This video is age-restricted">>
            [] cause = "Could not extract" /\ v = "part000" ->
                 <<"Please update ytdl-core">>
            [] OTHER -> <<"Failed to get video information", cause>>]

\* getVideoInfo failing on two fetches, for two causes
CallGetVideoInfo(a, b) ==
  /\ call' = [fn  |-> "getVideoInfo",
              arg |-> [a |-> a, b |-> b],
              res |-> [a |-> GetVideoInfoThrows(ver, a),
                       b |-> GetVideoInfoThrows(ver, b)]]
  /\ UNCHANGED <<ver, kind, formats, quality>>
  /\ UNCHANGED <<procVars, srcVars, sinkVars, fsVars, timerVars, outVars, obsVars>>

\* latest time drawn, in seconds
MaxTime == 3

\* revisions that compute a transfer rate
ComputesRate(v) == v \in {"part000", "index1", "index2", "part003a"}

\* one progress computation: cur bytes received now, last and lastTime the
\* baselines, start the time the download began.  The rate is the pair
\* <<bytes, seconds>> of the division the code performs
TickRate(v, cur, last, now, lastTime, start) ==
  IF v = "part000"
  THEN [speed     |-> <<cur, now - start>>,
        lastBytes |-> last,
        lastTime  |-> IF Throttled(now - lastTime) THEN now ELSE lastTime]
  ELSE [speed     |-> <<cur - last, now - lastTime>>,
        lastBytes |-> cur,
        lastTime  |-> now]

CallTick(cur, last, now, lastTime, start) ==
  /\ ComputesRate(ver)
  /\ last <= cur
  /\ start <= lastTime
  /\ lastTime < now
  /\ call' = [fn  |-> "tick",
              arg |-> [cur |-> cur, last |-> last, now |-> now,
                       lastTime |-> lastTime, start |-> start],
              res |-> TickRate(ver, cur, last, now, lastTime, start)]
  /\ UNCHANGED <<ver, kind, formats, quality>>
  /\ UNCHANGED <<procVars, srcVars, sinkVars, fsVars, timerVars, outVars, obsVars>>

\* revisions that compute a percentage from a total of their own
ComputesPercentage(v) == v \in {"index1", "index2", "part001", "part003b"}

\* const totalBytes = ...: from the content length (0: absent) or from the
\* duration in seconds
TotalBytes(v, k, contentLength, duration) ==
  CASE v = "index1" -> duration
    [] v = "index2" -> contentLength
    [] v = "part001" ->
         IF contentLength # 0 THEN contentLength ELSE (duration * 128000) \div 8
    [] OTHER ->
         IF contentLength # 0 THEN contentLength
         ELSE (duration * (IF k = "audio" THEN 128000 ELSE 512000)) \div 8

\* the progress display: whether a percentage is shown and the division it
\* comes from; 0 when index.ts finds no total; part003b divides by whatever
\* the total is
Percentage(v, cur, total) ==
  CASE v = "part003b" -> [shown |-> TRUE, of |-> <<cur, total>>]
    [] v = "part001" ->
         IF total # 0 THEN [shown |-> TRUE, of |-> <<cur, total>>]
         ELSE [shown |-> FALSE, of |-> <<0, 1>>]
    [] OTHER ->
         IF total # 0 THEN [shown |-> TRUE, of |-> <<cur, total>>]
         ELSE [shown |-> TRUE, of |-> <<0, 1>>]

CallProgress(contentLength, duration, cur) ==
  /\ ComputesPercentage(ver)
  /\ call' = [fn  |-> "progress",
              arg |-> [contentLength |-> contentLength, duration |-> duration,
                       cur |-> cur],
              res |-> Percentage(ver, cur,
                                 TotalBytes(ver, kind, contentLength, duration))]
  /\ UNCHANGED <<ver, kind, formats, quality>>
  /\ UNCHANGED <<procVars, srcVars, sinkVars, fsVars, timerVars, outVars, obsVars>>

\* most calls of the logger drawn
MaxCalls == 2

\* a call of logger.info / logger.error: level, message, details or "none"
LogCalls == [level : {"info", "error"}, message : {"m"}, details : {"none", "d"}]

\* createLogEntry: the entry pushed on this.logs (the timestamp left out)
CreateLogEntry(c) == [level |-> c.level, message |-> c.message, details |-> c.details]

\* formatMessage
FormatMessage(entry) == <<"line", entry.level, entry.message>>

\* a logger that prints nothing unless it is in debug mode
LogToConsoleQuiet(debugMode, entry) ==
  IF debugMode THEN <<FormatMessage(entry), <<"details", entry.details>>>> ELSE <<>>

\* logToConsole: what is printed for an entry
LogToConsole(debugMode, entry) ==
  IF entry.details # "none" /\ debugMode
  THEN <<FormatMessage(entry), <<"details", entry.details>>>>
  ELSE <<FormatMessage(entry)>>

\* a Logger constructed with debugMode and given the calls in order: the
\* entries it records and what it prints
RECURSIVE RunLogger(_, _)
RunLogger(debugMode, calls) ==
  IF calls = <<>> THEN [logs |-> <<>>, out |-> <<>>]
  ELSE LET before == RunLogger(debugMode, SubSeq(calls, 1, Len(calls) - 1))
           entry  == CreateLogEntry(calls[Len(calls)])
       IN  [logs |-> Append(before.logs, entry),
            out  |-> before.out \o LogToConsole(debugMode, entry)]

\* the same calls given to a logger without and to one with debug mode
CallLogger(calls) ==
  /\ ~UsesYtdl(ver)
  /\ call' = [fn  |-> "logger",
              arg |-> [calls |-> calls],
              res |-> [off |-> RunLogger(FALSE, calls),
                       on  |-> RunLogger(TRUE, calls)]]
  /\ UNCHANGED <<ver, kind, formats, quality>>
  /\ UNCHANGED <<procVars, srcVars, sinkVars, fsVars, timerVars, outVars, obsVars>>

\* the subclasses of YouTubeDownloaderError
ErrorClasses == {"VideoInfoError", "DownloadError", "FileSystemError", "ValidationError"}

\* the code each subclass passes to super()
ErrorCode(class) ==
  CASE class = "VideoInfoError" -> "VIDEO_INFO_ERROR"
    [] class = "DownloadError" -> "DOWNLOAD_ERROR"
    [] class = "FileSystemError" -> "FILE_SYSTEM_ERROR"
    [] class = "ValidationError" -> "VALIDATION_ERROR"
    [] OTHER -> "none"

\* new XError(message, details): a thrown value is the sequence of its
\* layers, the value itself first, then its details, then their details
NewError(class, message, details) ==
  <<[name |-> class, code |-> ErrorCode(class), message |-> message]>> \o details

\* what the runtime and the libraries throw: Errors outside the taxonomy
RawErrors ==
  {<<[name |-> n, code |-> "none", message |-> m]>> :
     n \in {"Error", "TypeError"}, m \in {"m", "n"}}

\* a thrown value that is no Error: a string
ThrownStrings == {<<[name |-> "string", code |-> "none", message |-> m]>> : m \in {"m", "n"}}

\* errors of the taxonomy, without details or with the error that caused them
TypedErrors ==
  {NewError(c, "t", d) : c \in ErrorClasses, d \in {<<>>} \cup RawErrors}

\* what the stream handlers and the stall timer pass to reject()
Rejections ==
  {NewError(c, "t", d) : c \in {"DownloadError", "FileSystemError"}, d \in RawErrors}

\* everything that can reach the catch block
Thrown == TypedErrors \cup RawErrors \cup ThrownStrings

\* error instanceof YouTubeDownloaderError
InstanceOfTaxonomy(e) == e[1].name \in ErrorClasses

\* error instanceof Error
InstanceOfError(e) == e[1].name # "string"

\* new Error(String(error))
StringError(e) == <<[name |-> "Error", code |-> "none", message |-> e[1].message]>>

\* the message of the DownloadError the catch block builds
WrapMessage(v, e) ==
  CASE v = "part003a" -> "Download failed"
    [] v = "part000" ->
         IF InstanceOfError(e) THEN "Download failed" ELSE "An unknown error occurred"
    [] OTHER -> "Download failed with unknown error"

\* a catch block that wraps whatever it is given
CatchBlockWrapsAll(v, e) ==
  NewError("DownloadError", WrapMessage(v, e),
           IF InstanceOfError(e) THEN e ELSE StringError(e))

\* the catch block of downloadVideo: the value it throws
CatchBlock(v, e) ==
  IF InstanceOfTaxonomy(e) THEN e
  ELSE NewError("DownloadError", WrapMessage(v, e),
                IF InstanceOfError(e) THEN e ELSE StringError(e))

\* the error the caller of downloadVideo gets: a value thrown inside the try
\* block passes through the catch block, a rejection of the returned promise
\* only where the promise is awaited inside the try block
Returned(v, route, e) ==
  IF route = "thrown" \/ CatchSeesRejection(v) THEN CatchBlock(v, e) ELSE e

\* downloadVideo failing by a throw inside the try block or by a rejection
CallCatch(route, e) ==
  /\ ver # "part002"
  /\ route = "rejected" => e \in Rejections
  /\ call' = [fn  |-> "catch",
              arg |-> [route |-> route, error |-> e],
              res |-> Returned(ver, route, e)]
  /\ UNCHANGED <<ver, kind, formats, quality>>
  /\ UNCHANGED <<procVars, srcVars, sinkVars, fsVars, timerVars, outVars, obsVars>>

\* a revision and a kind, with nothing requested yet
FnInit == Init /\ formats = {} /\ file = "absent"

\* each run applies one helper, once
FnNext ==
  \/ call = NoCall /\ \E a, b \in Offers : CallSelect(a, b)
  \/ call = NoCall /\ \E t \in Titles : CallFileName(t)
  \/ call = NoCall /\ \E url \in Urls, verdict \in Verdicts :
                        CallValidate(url, verdict)
  \/ call = NoCall /\ \E a, b \in Causes : CallGetVideoInfo(a, b)
  \/ call = NoCall /\ \E cur, last \in 0..MaxBytes, now, lastTime, start \in 0..MaxTime :
                        CallTick(cur, last, now, lastTime, start)
  \/ call = NoCall /\ \E contentLength, duration, cur \in 0..MaxBytes :
                        CallProgress(contentLength, duration, cur)
  \/ call = NoCall /\ \E calls \in UNION {[1..n -> LogCalls] : n \in 0..MaxCalls} :
                        CallLogger(calls)
  \/ call = NoCall /\ \E route \in {"thrown", "rejected"}, e \in Thrown :
                        CallCatch(route, e)

FnSpec == FnInit /\ [][FnNext]_vars

----------------------------------------------------------------------------
(* Claims *)

\* C1: the pipeline enters a terminal state at most once: the failure path
\* (error reported, partial file cleaned up) and the success path (result
\* built, completion reported) never both run for one request, in either
\* order.
C1_OneTerminalPath == ~(successRan /\ failRan)

\* C2: when the source stream fails during streaming, no
\* output file written by the request exists at the output path once the
\* failure has been returned, wherever the error falls relative to the
\* sink's asynchronous open.
C2_NoFileAfterSourceError ==
  (srcErrLive /\ outcome.state = "error") => file # "new"

\* C3: when the source stream fails during streaming, the
\* caller receives the failure as the settled outcome of the call, as a
\* DownloadError; it never escapes by another route.
C3_SourceErrorSettlesCall ==
  srcErrLive => /\ outcome.state = "error"
                /\ outcome.cat = "DOWNLOAD_ERROR"
                /\ outcome.cause = "src"

\* C4: when the sink fails while the request is still pending, the failure
\* returned is a FileSystemError and the partially written file has been
\* deleted: no output file of the request exists at the output path.
C4_SinkErrorCleansUp ==
  (sinkErrLive /\ outcome.state = "error") =>
     /\ outcome.cat = "FILE_SYSTEM_ERROR"
     /\ file # "new"

\* C5: a request that fails before streaming begins (directory, validation,
\* metadata, format selection, opening the data stream) has created no output
\* file.
C5_NoFileBeforeStreaming ==
  (outcome.state = "error"
     /\ outcome.cause \in {"mkdir", "validate", "resolve", "select", "open"})
  => ~created

\* C6: at the moment a request completes, the size in its DownloadResult
\* equals the sum of the chunk lengths the source delivered and the number of
\* bytes in the output file.
C6_SizeIsDeliveredAndWritten ==
  [][(outcome.state = "pending" /\ outcome'.state = "result")
       => /\ outcome'.size = delivered'
          /\ file' = "new"
          /\ fileBytes' = outcome'.size]_vars

\* C6 witness: a request completed after the source delivered all its bytes
C6_Witness ==
  /\ outcome.state = "result"
  /\ outcome.size = MaxBytes
  /\ fileBytes = MaxBytes
  /\ file = "new"

\* C7: completion is reported only after the sink has signalled that it
\* flushed and closed the file.
C7_SuccessOnlyAfterFinish == successRan => sink = "finished"

\* C8: every invocation that starts streaming eventually delivers a terminal
\* event, a DownloadResult or a typed error, to its caller, whatever the
\* source and the sink do.
C8_EventuallyDelivered ==
  (pc = "await") ~> (outcome.state \in {"result", "error"})

\* C9: a request whose source has stalled without delivering a byte does not
\* stay pending: it is failed by the stall timeout.
C9_StalledRequestFails ==
  (Running /\ src = "stalled" /\ downloaded = 0 /\ outcome.state = "pending")
    ~> (outcome.state # "pending")

\* C10: the process exits with status zero only when the download completed
\* and no stage of it failed.
C10_ZeroExitOnlyOnSuccess ==
  exitCode = "zero" => (failStage = "none" /\ sink = "finished")


\* C14: a request for which no acceptable format is offered fails with the
\* dedicated no-format-available category, before a data stream is opened and
\* before an output file is created; the itag handed to the stream opener is
\* always one of the offered itags.
C14_NoFormatFailsBeforeOpen ==
  /\ pc = "open" => quality \in formats
  /\ (outcome.state = "error" /\ outcome.cause = "select")
       => /\ outcome.cat = "NO_FORMAT_AVAILABLE"
          /\ src = "none"
          /\ ~created

\* C19: a request whose metadata fetch fails is failed with the metadata
\* category (VideoInfoError, code VIDEO_INFO_ERROR), not with the download
\* category.
C19_MetadataFailureIsVideoInfoError ==
  (outcome.state = "error" /\ outcome.cause = "resolve")
    => outcome.cat = "VIDEO_INFO_ERROR"


\* C11: for an audio request whose offer lists at least one of the preferred
\* audio itags, the selection returns the first of 251, 140, 250, 249 that is
\* offered; from an offer of 140 and 251 it returns 251.
C11_AudioPicksFirstPreferred ==
  (/\ call.fn = "select"
   /\ kind = "audio"
   /\ AvailableQualities(call.arg.a) \cap {251, 140, 250, 249} # {})
    => /\ ~call.res.a.thrown
       /\ call.res.a.quality =
            FirstOffered(<<251, 140, 250, 249>>, AvailableQualities(call.arg.a))

\* C12: for an audio request whose offer lists none of the preferred audio
\* itags but at least one audio-only format, the selection succeeds and
\* returns an audio-only format of the offer.
C12_AudioFallsBackToAudioOnly ==
  (/\ call.fn = "select"
   /\ kind = "audio"
   /\ AvailableQualities(call.arg.a) \cap {251, 140, 250, 249} = {}
   /\ \E i \in AvailableQualities(call.arg.a) : HasAudio(i) /\ ~HasVideo(i))
    => /\ ~call.res.a.thrown
       /\ call.res.a.quality \in AvailableQualities(call.arg.a)
       /\ HasAudio(call.res.a.quality)
       /\ ~HasVideo(call.res.a.quality)

\* C13: for a video request the format chosen is a format of the offer that
\* carries both audio and video; a video-only or audio-only format is never
\* chosen.
C13_VideoPicksCombinedFormat ==
  (/\ call.fn = "select"
   /\ kind = "video"
   /\ ~call.res.a.thrown)
    => /\ call.res.a.quality \in AvailableQualities(call.arg.a)
       /\ HasAudio(call.res.a.quality)
       /\ HasVideo(call.res.a.quality)

\* C15: the selection depends only on the kind and on the set of itags
\* offered: two offers of the same formats, in another order or with other
\* content lengths, get the same choice.
C15_SelectionIgnoresOrderAndLength ==
  call.fn = "select" => call.res.a = call.res.b

\* two formats offered in both orders, with different content lengths, and a
\* format of the offer chosen
C15_Witness ==
  /\ call.fn = "select"
  /\ Len(call.arg.a) = 2
  /\ Len(call.arg.b) = 2
  /\ call.arg.a[1].itag # call.arg.a[2].itag
  /\ call.arg.b[1].itag = call.arg.a[2].itag
  /\ call.arg.b[2].itag = call.arg.a[1].itag
  /\ call.arg.a[1].contentLength # call.arg.b[2].contentLength
  /\ ~call.res.a.thrown
  /\ call.res.a.quality \in AvailableQualities(call.arg.a)
  /\ call.res.a.quality = call.arg.b[1].itag


\* C16: for every non-empty title the sanitized base name is the title with
\* each of / \ ? % * : | " < > replaced by "-" and every other character
\* unchanged, cut to its first 200 characters, so its length is the smaller
\* of the title's length and 200; the extension is appended after the cut.
\* "A/B?C*D" becomes "A-B-C-D".
C16_SanitizedBaseName ==
  (/\ call.fn = "filename"
   /\ Sanitizes(ver)
   /\ call.arg.title # <<>>)
    => LET t == call.arg.title
           b == call.res.base
           f == call.res.name
           n == IF Len(t) < 200 THEN Len(t) ELSE 200
       IN  /\ Len(b) = n
           /\ \A i \in 1..n :
                b[i] = IF t[i] \in {"/", "\\", "?", "%", "*", ":", "|",
                                    "\"", "<", ">"}
                       THEN "-" ELSE t[i]
           /\ Len(f) = n + 4
           /\ SubSeq(f, 1, n) = b
           /\ f[n + 1] = "."
           /\ t = <<"A", "/", "B", "?", "C", "*", "D">>
                => b = <<"A", "-", "B", "-", "C", "-", "D">>

\* a title of hostile characters that runs past the cut, replaced and cut
C16_Witness ==
  /\ call.fn = "filename"
  /\ Sanitizes(ver)
  /\ Len(call.arg.title) > TitleLimit
  /\ call.arg.title[TitleLimit] = "/"
  /\ Len(call.res.base) = TitleLimit
  /\ call.res.base[TitleLimit] = "-"
  /\ Len(call.res.name) = TitleLimit + 4

\* C17: an empty title gives the base name "video", followed by the
\* extension; the base name is never empty.
C17_EmptyTitleDefaultsToVideo ==
  call.fn = "filename"
    => /\ call.arg.title = <<>> => call.res.base = <<"v", "i", "d", "e", "o">>
       /\ call.res.base # <<>>

\* C18: URL validation fails with a ValidationError when the URL is empty and
\* with the invalid-URL category when the remote reports that the URL names
\* no playable video, and the error reaches the caller as an error.
C18_ValidationErrorReachesCaller ==
  call.fn = "validateYouTubeUrl"
    => /\ call.arg.url = "" => call.res.thrown = "VALIDATION_ERROR"
       /\ (call.arg.url # "" /\ call.arg.verdict = "other")
            => call.res.thrown \in {"VALIDATION_ERROR", "INVALID_URL"}

\* C20: a metadata failure caused by an age restriction, one caused by an
\* extractor incompatibility and a generic one give errors that differ in
\* category or subtype, not only in message.
C20_MetadataSubtypesDiffer ==
  (/\ call.fn = "getVideoInfo"
   /\ call.arg.a # call.arg.b
   /\ {call.arg.a, call.arg.b}
        \subseteq {"age-restricted", "Could not extract", "other"})
    => <<call.res.a.name, call.res.a.code>>
         # <<call.res.b.name, call.res.b.code>>


\* C21: a failure of creating the download directory or of creating the
\* output file reaches the caller in the FileSystemError category (code
\* FILE_SYSTEM_ERROR), not in the download category.
C21_LocalIoFailureIsFileSystemError ==
  (outcome.state = "error" /\ outcome.cause \in {"mkdir", "sink"})
    => outcome.cat = "FILE_SYSTEM_ERROR"

\* C23: when the terminal outcome is delivered, on the success path, after a
\* source error and after a sink error, the progress timer has been
\* cancelled: no terminal state has the timer armed.
C23_TimerCancelledAtOutcome ==
  outcome.state \in {"result", "error"} => ~interval

\* the timer was armed, data was counted, and the request settled
C23_Witness ==
  /\ HasInterval(ver)
  /\ downloaded > 0
  /\ src \in {"ended", "errored"}
  /\ outcome.state \in {"result", "error"}
  /\ outcome.cause \in {"none", "src"}
  /\ ~interval

\* C30: once a request has completed, no later event of it (the stall
\* timeout firing, a late source or sink event) deletes or changes the output
\* file, reports a failure or changes the outcome; a download that completed
\* with zero bytes keeps its file.
C30_NothingChangesAfterCompleted ==
  [][(successRan /\ outcome.state = "result")
       => /\ file' = file
          /\ fileBytes' = fileBytes
          /\ outcome' = outcome
          /\ failRan' = failRan]_vars


\* C22: for every failed run exactly one error line is printed for the
\* failure: it is never logged more than once across the stream handlers,
\* the catch block of downloadVideo and main, and never dropped.
C22_OneErrorLinePerFailure ==
  /\ ~(src = "errored" /\ sink = "errored") => errLines <= 1
  /\ (failStage # "none" /\ ~successRan /\ exitCode # "running") => errLines >= 1

C25_Rank ==
  IF successRan THEN 5
  ELSE IF pc = "start" THEN 0
  ELSE IF pc \in {"validate", "info"} THEN 1
  ELSE IF pc = "open" \/ src = "preparing" THEN 2
  ELSE IF sinkEnding THEN 4
  ELSE 3

\* C25: the states are visited in the order Idle, Resolving, FormatSelection,
\* Streaming, Finalizing, then Completed or Failed: none is re-entered, none
\* is skipped except by moving to Failed, Failed is not entered after
\* Completed nor Completed after Failed, and the output file is created and
\* the data stream opened only after a format has been selected.
C25_StatesInOrder ==
  [][/\ failStage' = "none" => C25_Rank' \in {C25_Rank, C25_Rank + 1}
     /\ (successRan /\ ~failRan) => ~failRan'
     /\ (failStage # "none" /\ ~successRan) => ~successRan'
     /\ (performed'.create > 0 \/ performed'.open > 0) => performed'.select > 0]_vars

\* one of the four stages has failed
C26_StageFailed ==
  \/ failStage \in {"resolve", "select", "open"}
  \/ sink = "errored" /\ ~sysOpened

\* C26: within one request the metadata fetch, the format selection, the
\* opening of the data stream and the creation of the output file are each
\* performed at most once, and after one of them has failed none of them is
\* performed again.
C26_NothingRetried ==
  [][/\ \A o \in DOMAIN performed : performed'[o] <= 1
     /\ C26_StageFailed => performed' = performed]_vars

\* the stream could not be opened: fetch, selection and open were performed
\* once, the file was never created, and the process has exited
C26_Witness ==
  /\ failStage = "open"
  /\ performed = [fetch |-> 1, select |-> 1, open |-> 1, create |-> 0]
  /\ exitCode = "nonzero"


\* the lines among what a logger printed
C27_IsLine(x) == x[1] = "line"

\* C27: the debug flag does not affect what the logger records: given the
\* same calls, a logger with the flag and one without record the same
\* entries and print the same lines; the flag only adds, after its line, the
\* details of an entry that has details.
C27_DebugFlagOnlyAddsDetails ==
  call.fn = "logger"
    => /\ call.res.on.logs = call.res.off.logs
       /\ Len(call.res.off.logs) = Len(call.arg.calls)
       /\ SelectSeq(call.res.on.out, C27_IsLine) = call.res.off.out
       /\ Len(call.res.off.out) = Len(call.arg.calls)
       /\ \A i \in 1..Len(call.res.on.out) :
            ~C27_IsLine(call.res.on.out[i])
              => /\ i > 1
                 /\ C27_IsLine(call.res.on.out[i - 1])
                 /\ call.res.on.out[i][2] # "none"

\* an entry with details and one without: the flag adds one details line
C27_Witness ==
  /\ call.fn = "logger"
  /\ Len(call.arg.calls) = 2
  /\ call.arg.calls[1].details = "d"
  /\ call.arg.calls[2].details = "none"
  /\ Len(call.res.on.out) = 3
  /\ Len(call.res.off.out) = 2

\* C28: at every progress tick the reported rate is the bytes received since
\* the previous tick divided by the seconds since the previous tick, and the
\* tick takes the current byte count and time as its new baselines; the rate
\* is not an average since the start.
C28_RateIsSincePreviousTick ==
  call.fn = "tick"
    => /\ call.res.speed[1] * (call.arg.now - call.arg.lastTime)
            = (call.arg.cur - call.arg.last) * call.res.speed[2]
       /\ call.res.lastBytes = call.arg.cur
       /\ call.res.lastTime = call.arg.now

\* C29: a percentage is shown only when the content length of the selected
\* format is known, and is then bytes received over the content length; when
\* it is absent no percentage is derived from a substitute total.
C29_PercentageOnlyFromContentLength ==
  call.fn = "progress"
    => /\ call.arg.contentLength = 0 => ~call.res.shown
       /\ call.arg.contentLength # 0
            => /\ call.res.shown
               /\ call.res.of[1] * call.arg.contentLength
                    = call.arg.cur * call.res.of[2]

\* C31: a request that ends Failed leaves untouched any file that already
\* existed at its output path before the request started: a failure at format
\* selection, at stream opening or during streaming never deletes or
\* truncates it.
C31_FailureKeepsExistingFile ==
  (file = "old") => [](outcome.state = "error" => file = "old")

\* C32 as stated: every failure that downloadVideo returns to its caller is a
\* typed error of the taxonomy: a typed error raised inside the pipeline is
\* propagated unchanged, keeping its category and code, and any untyped error
\* is wrapped exactly once in a DownloadError whose details are the original
\* error.
C32_FailuresAreTyped ==
  call.fn = "catch"
    => LET e == call.arg.error
           r == call.res
       IN  /\ r[1].name \in {"VideoInfoError", "DownloadError", "FileSystemError",
                             "ValidationError"}
           /\ r[1].code # "none"
           /\ e[1].name \in {"VideoInfoError", "DownloadError", "FileSystemError",
                             "ValidationError"} => r = e
           /\ e[1].name \notin {"VideoInfoError", "DownloadError", "FileSystemError",
                                "ValidationError"}
                => /\ r[1].name = "DownloadError"
                   /\ r[1].code = "DOWNLOAD_ERROR"
                   /\ Tail(r) = e

\* C32, amended: every failure that downloadVideo returns to its caller is a
\* typed error of the taxonomy: a typed error is propagated unchanged, keeping
\* its category and code, and any other thrown value is wrapped exactly once
\* in a DownloadError whose details are the original error when the value is
\* an Error, and a new Error carrying the value's string form when it is not.
C32_FailuresAreTypedAmended ==
  call.fn = "catch"
    => LET e == call.arg.error
           r == call.res
       IN  /\ r[1].name \in {"VideoInfoError", "DownloadError", "FileSystemError",
                             "ValidationError"}
           /\ r[1].code # "none"
           /\ e[1].name \in {"VideoInfoError", "DownloadError", "FileSystemError",
                             "ValidationError"} => r = e
           /\ e[1].name \notin {"VideoInfoError", "DownloadError", "FileSystemError",
                                "ValidationError"}
                => /\ r[1].name = "DownloadError"
                   /\ r[1].code = "DOWNLOAD_ERROR"
                   /\ Len(r) = 2
                   /\ IF e[1].name = "string"
                      THEN r[2] = [name |-> "Error", code |-> "none",
                                   message |-> e[1].message]
                      ELSE Tail(r) = e

\* a string has been thrown inside the try block and came out as a
\* DownloadError around a new Error
C32_Witness ==
  /\ call.fn = "catch"
  /\ call.arg.route = "thrown"
  /\ call.arg.error[1].name = "string"
  /\ Len(call.res) = 2
  /\ call.res[1].name = "DownloadError"
  /\ call.res[2].name = "Error"
  /\ call.res[2].message = call.arg.error[1].message

\* C33 is about a request in which both the source stream and the sink emit
\* an error.  No run has such a request: the first error of either stream
\* settles the call or is an uncaught exception, and the process exits before
\* the event loop dispatches a second stream event.
C33_NeverBothErrors == ~(src = "errored" /\ sink = "errored")

\* the request has terminated as Failed by a source error, a sink error or
\* the stall timeout
C34_Failed ==
  outcome.state = "error" /\ outcome.cause \in {"src", "sink", "timeout"}

\* C34: after a request has terminated as Failed (source error, sink error or
\* stall timeout) it processes no further source data: its byte counter no
\* longer changes, no further bytes are written for it, and the source stream
\* and the sink it opened are closed.
C34_FailedRequestIsQuiet ==
  /\ [](C34_Failed => /\ src \notin {"preparing", "flowing", "stalled"}
                      /\ sink \notin {"opening", "open"})
  /\ [][C34_Failed => /\ downloaded' = downloaded
                      /\ delivered' = delivered
                      /\ sinkBuf' = sinkBuf
                      /\ fileBytes' = fileBytes]_vars

\* C35: for every title the remote service can return, the output path is a
\* direct child of the download directory: the output file name contains no
\* path separator and none of the characters / \ ? % * : | " < >, so a title
\* can never make the file be written outside the download directory.
C35_OutputStaysInDownloadDir ==
  call.fn = "filename"
    => /\ \A i \in 1..Len(call.res.name) :
            call.res.name[i] \notin {"/", "\\", "?", "%", "*", ":", "|", "\"", "<", ">"}
       /\ ~call.res.path.absolute
       /\ call.res.path.segments
            = (IF ver \in {"part002", "part000"} THEN <<>> ELSE <<"videos">>)
                \o <<call.res.name>>

\* C36: the byte counter starts at 0 and only grows, by exactly the length of
\* each received chunk; at every progress tick the tick's baseline byte count
\* is at most the current counter, so the reported rate is never negative and
\* successive snapshots report non-decreasing byte counts.
C36_CounterOnlyGrows ==
  /\ downloaded = 0
  /\ [](lastBytes <= downloaded)
  /\ [][ver # "part002"
          => /\ downloaded' >= downloaded
             /\ downloaded' - downloaded = delivered' - delivered
             /\ lastBytes' >= lastBytes
             /\ lastBytes' # lastBytes => lastBytes' = downloaded]_vars

\* a tick has taken the first byte as its baseline and a chunk has arrived
\* since: the next tick reports a positive rate
C36_Witness ==
  /\ HasInterval(ver)
  /\ shot.n > 0
  /\ lastBytes = 1
  /\ downloaded = MaxBytes
  /\ delivered = MaxBytes

====
